---- MODULE Spec2Model ----
(***************************************************************************)
(* A model of the limit order book of orderbook-rs: Order, PriceLevel,     *)
(* BookSide and OrderBook (src/src/order.rs, price_level.rs, book_side.rs, *)
(* order_book.rs).  Decimal values are exact, so they are integers here.   *)
(* A Uuid is an opaque fresh identifier, drawn from a counter.  An         *)
(* Rc<RefCell<PriceLevel>> is a handle into the variable heap; the two     *)
(* indices of a BookSide hold handles, as the code's two maps hold Rc's.   *)
(***************************************************************************)
EXTENDS Integers, Sequences, FiniteSets, TLC

\* ---------------------------------------------------------------- bounds
MaxPrice == 2
MaxQty == 2
MaxIds == 3
MaxTime == 1
MaxLevelLen == 2
MaxSideOrders == 2

Prices == 1..MaxPrice
RestQtys == 1..MaxQty
SubmitQtys == (-1)..(MaxQty + 1)
Ids == 1..MaxIds

\* pre is the book as it was when the last call was made
VARIABLES orders, bids, asks, heap, nextId, now, last, pre

vars == <<orders, bids, asks, heap, nextId, now, last, pre>>

\* ------------------------------------------------------- Option, HashMap
None == <<>>

Some(x) == <<x>>

EmptyMap == [k \in {} |-> k]

MapPut(m, k, v) == [x \in (DOMAIN m) \cup {k} |-> IF x = k THEN v ELSE m[x]]

MapDel(m, k) == [x \in (DOMAIN m) \ {k} |-> m[x]]

SetMin(S) == CHOOSE x \in S : \A y \in S : x <= y

SetMax(S) == CHOOSE x \in S : \A y \in S : x >= y

\* A u32 is held as the integer congruent to it modulo 2^32 that is nearest
\* to zero, so 0 - 1 (which wraps to 2^32 - 1) is held as -1: addition and
\* subtraction are then the integer ones, and a u32 is positive when it is
\* not zero.
U32Add(x, y) == x + y

U32Sub(x, y) == x - y

U32Positive(x) == x # 0

\* ----------------------------------------------------------------- Order
Order_new(id, side, quantity, price, timestamp) ==
    [id |-> id, side |-> side, timestamp |-> timestamp,
     price |-> price, quantity |-> quantity]

\* ------------------------------------------------------------ PriceLevel
PriceLevel_new(price) == [volume |-> 0, price |-> price, orders |-> <<>>]

\* append that pushes at the front of the queue
PriceLevel_append_Front(pl, order) ==
    [pl EXCEPT !.volume = @ + order.quantity, !.orders = <<order>> \o @]

PriceLevel_append(pl, order) ==
    [pl EXCEPT !.volume = @ + order.quantity, !.orders = Append(@, order)]

\* iter().position(|&o| o == order): first index whose order equals the
\* argument in every field, 0 when there is none
Position(s, order) ==
    IF \E i \in 1..Len(s) : s[i] = order
    THEN SetMin({i \in 1..Len(s) : s[i] = order})
    ELSE 0

\* remove that takes out the front of the queue whatever pos is
RemoveAt_Front(s, pos) == Tail(s)

RemoveAt(s, pos) == SubSeq(s, 1, pos - 1) \o SubSeq(s, pos + 1, Len(s))

\* remove that leaves the volume of the level as it was
PriceLevel_remove_at_KeepVolume(pl, order, pos) ==
    IF pos # 0
    THEN [level |-> [pl EXCEPT !.orders = RemoveAt(@, pos)],
          result |-> Some(pl.orders[pos])]
    ELSE [level |-> pl, result |-> None]

\* the body of remove once position() has returned pos: the volume is
\* lowered whether or not the order was found
PriceLevel_remove_at(pl, order, pos) ==
    IF pos # 0
    THEN [level |-> [pl EXCEPT !.volume = @ - order.quantity,
                               !.orders = RemoveAt(@, pos)],
          result |-> Some(pl.orders[pos])]
    ELSE [level |-> [pl EXCEPT !.volume = @ - order.quantity], result |-> None]

\* remove that returns the order it found and leaves it in the queue
PriceLevel_remove_Keep(pl, order) ==
    IF Position(pl.orders, order) # 0
    THEN [level |-> [pl EXCEPT !.volume = @ - order.quantity],
          result |-> Some(pl.orders[Position(pl.orders, order)])]
    ELSE [level |-> [pl EXCEPT !.volume = @ - order.quantity], result |-> None]

PriceLevel_remove(pl, order) ==
    PriceLevel_remove_at(pl, order, Position(pl.orders, order))

PriceLevel_len(pl) == Len(pl.orders)

PriceLevel_front(pl) == IF Len(pl.orders) > 0 THEN Some(pl.orders[1]) ELSE None

\* replace_front that takes the head order out and queues the new one at the
\* back
PriceLevel_replace_front_Requeue(pl, order) ==
    LET quantity == IF Len(pl.orders) > 0 THEN pl.orders[1].quantity ELSE 0
        os == IF Len(pl.orders) > 0 THEN Append(Tail(pl.orders), order)
              ELSE pl.orders
    IN [pl EXCEPT !.orders = os, !.volume = (@ - quantity) + order.quantity]

PriceLevel_replace_front(pl, order) ==
    LET quantity == IF Len(pl.orders) > 0 THEN pl.orders[1].quantity ELSE 0
        os == IF Len(pl.orders) > 0
              THEN [pl.orders EXCEPT ![1] = [id |-> order.id, side |-> order.side,
                                             timestamp |-> order.timestamp,
                                             price |-> order.price,
                                             quantity |-> order.quantity]]
              ELSE pl.orders
    IN [pl EXCEPT !.orders = os, !.volume = (@ - quantity) + order.quantity]

\* -------------------------------------------------------------- BookSide
BookSide_new == [prices |-> EmptyMap, price_tree |-> EmptyMap,
                 volume |-> 0, num_orders |-> 0, depth |-> 0]

\* Rc::new: the lowest handle that is not in use
Alloc(hp) == SetMin({h \in 1..(Cardinality(DOMAIN hp) + 1) : h \notin DOMAIN hp})

\* the end of append without the change of the side's volume
BookSide_append_to_NoVolume(bs, hp, order, h) ==
    [side |-> [bs EXCEPT !.num_orders = U32Add(@, 1)],
     heap |-> [hp EXCEPT ![h] = PriceLevel_append(@, order)]]

\* the end of append, with the level h found or created
BookSide_append_to(bs, hp, order, h) ==
    [side |-> [bs EXCEPT !.num_orders = U32Add(@, 1),
                         !.volume = @ + order.quantity],
     heap |-> [hp EXCEPT ![h] = PriceLevel_append(@, order)]]

\* the else branch of append: a new level h enters both indices
BookSide_append_new_level(bs, hp, order, h) ==
    BookSide_append_to([bs EXCEPT !.prices = MapPut(@, order.price, h),
                                  !.price_tree = MapPut(@, order.price, h),
                                  !.depth = U32Add(@, 1)],
                       MapPut(hp, h, PriceLevel_new(order.price)), order, h)

\* append that makes a new level for every order
BookSide_append_Fresh(bs, hp, order) ==
    BookSide_append_new_level(bs, hp, order, Alloc(hp))

BookSide_append(bs, hp, order) ==
    IF order.price \in DOMAIN bs.prices
    THEN BookSide_append_to(bs, hp, order, bs.prices[order.price])
    ELSE BookSide_append_new_level(bs, hp, order, Alloc(hp))

\* remove that deletes an emptied level and leaves depth as it was
BookSide_remove_from_KeepDepth(bs, hp, order, h, r) ==
    [side |-> IF PriceLevel_len(r.level) <= 0
              THEN [bs EXCEPT !.num_orders = U32Sub(@, 1),
                              !.volume = @ - order.quantity,
                              !.prices = MapDel(@, order.price),
                              !.price_tree = MapDel(@, order.price)]
              ELSE [bs EXCEPT !.num_orders = U32Sub(@, 1),
                              !.volume = @ - order.quantity],
     heap |-> [hp EXCEPT ![h] = r.level],
     result |-> r.result]

\* remove when prices holds a level h at order.price; r is what the level's
\* remove returned
BookSide_remove_from(bs, hp, order, h, r) ==
    [side |-> IF PriceLevel_len(r.level) <= 0
              THEN [bs EXCEPT !.num_orders = U32Sub(@, 1),
                              !.volume = @ - order.quantity,
                              !.prices = MapDel(@, order.price),
                              !.price_tree = MapDel(@, order.price),
                              !.depth = U32Sub(@, 1)]
              ELSE [bs EXCEPT !.num_orders = U32Sub(@, 1),
                              !.volume = @ - order.quantity],
     heap |-> [hp EXCEPT ![h] = r.level],
     result |-> r.result]

BookSide_remove(bs, hp, order) ==
    IF order.price \in DOMAIN bs.prices
    THEN BookSide_remove_from(bs, hp, order, bs.prices[order.price],
                              PriceLevel_remove(hp[bs.prices[order.price]], order))
    ELSE [side |-> bs, heap |-> hp, result |-> None]

\* min_price_level that takes the last entry of the tree
min_price_level_Last(bs) ==
    IF U32Positive(bs.depth) /\ DOMAIN bs.price_tree # {}
    THEN Some(bs.price_tree[SetMax(DOMAIN bs.price_tree)])
    ELSE None

min_price_level(bs) ==
    IF U32Positive(bs.depth) /\ DOMAIN bs.price_tree # {}
    THEN Some(bs.price_tree[SetMin(DOMAIN bs.price_tree)])
    ELSE None

max_price_level(bs) ==
    IF U32Positive(bs.depth) /\ DOMAIN bs.price_tree # {}
    THEN Some(bs.price_tree[SetMax(DOMAIN bs.price_tree)])
    ELSE None

\* ------------------------------------------------------------- OrderBook
\* B is the OrderBook with the memory its Rc's point into:
\* [orders, bids, asks, heap]
OrderBook_new == [orders |-> EmptyMap, bids |-> BookSide_new,
                  asks |-> BookSide_new, heap |-> EmptyMap]

NoResult == [done |-> <<>>, partial |-> None, quantity_filled |-> 0]

Fill(order_id, status, price, quantity) ==
    [order_id |-> order_id, status |-> status, price |-> price,
     quantity |-> quantity]

iterate_min(bs) == min_price_level(bs)

iterate_max(bs) == max_price_level(bs)

\* a strict comparison in place of >=
greater_than(left, right) == left > right

greater_than_or_equal(left, right) == left >= right

\* a strict comparison in place of <=
less_than(left, right) == left < right

less_than_or_equal(left, right) == left <= right

\* the iterators bound to the wrong sides
iter_Swapped(side, bs) == IF side = "Bid" THEN iterate_max(bs) ELSE iterate_min(bs)

\* the match on side that binds iter
iter(side, bs) == IF side = "Bid" THEN iterate_min(bs) ELSE iterate_max(bs)

\* the comparators bound to the wrong sides
comparator_Swapped(side, left, right) ==
    IF side = "Bid" THEN less_than_or_equal(left, right)
    ELSE greater_than_or_equal(left, right)

\* the match on side that binds comparator
comparator(side, left, right) ==
    IF side = "Bid" THEN greater_than_or_equal(left, right)
    ELSE less_than_or_equal(left, right)

\* other_book_side that returns the side of the argument
other_book_side_Same(B, side) == IF side = "Ask" THEN B.asks ELSE B.bids

other_book_side(B, side) == IF side = "Ask" THEN B.bids ELSE B.asks

\* get that looks the id up among the bids only
OrderBook_get_Bids(B, id) ==
    IF id \in DOMAIN B.orders /\ B.orders[id].side = "Bid"
    THEN Some(B.orders[id])
    ELSE None

OrderBook_get(B, id) == IF id \in DOMAIN B.orders THEN Some(B.orders[id]) ELSE None

\* self.asks / self.bids after a BookSide call that returned r
WithAsks(B, r) == [B EXCEPT !.asks = r.side, !.heap = r.heap]

WithBids(B, r) == [B EXCEPT !.bids = r.side, !.heap = r.heap]

\* what remove returns once the side's remove returned r
AsksRemoved(B, r) == [book |-> WithAsks(B, r), result |-> r.result]

BidsRemoved(B, r) == [book |-> WithBids(B, r), result |-> r.result]

\* remove once the index gave up order
OrderBook_remove_order(B, order) ==
    IF order.side = "Ask"
    THEN AsksRemoved(B, BookSide_remove(B.asks, B.heap, order))
    ELSE BidsRemoved(B, BookSide_remove(B.bids, B.heap, order))

\* remove that leaves the order in the global index
OrderBook_remove_KeepIndex(B, id) ==
    IF id \in DOMAIN B.orders
    THEN OrderBook_remove_order(B, B.orders[id])
    ELSE [book |-> B, result |-> None]

\* remove that counts an order off the bids also when the id is unknown
OrderBook_remove_Count(B, id) ==
    IF id \in DOMAIN B.orders
    THEN OrderBook_remove_order([B EXCEPT !.orders = MapDel(@, id)], B.orders[id])
    ELSE [book |-> [B EXCEPT !.bids.num_orders = U32Sub(@, 1)], result |-> None]

OrderBook_remove(B, id) ==
    IF id \in DOMAIN B.orders
    THEN OrderBook_remove_order([B EXCEPT !.orders = MapDel(@, id)], B.orders[id])
    ELSE [book |-> B, result |-> None]

\* append that does not enter the order in the global index
OrderBook_append_NoIndex(B, order) ==
    IF order.side = "Ask"
    THEN WithAsks(B, BookSide_append(B.asks, B.heap, order))
    ELSE WithBids(B, BookSide_append(B.bids, B.heap, order))

OrderBook_append(B, order) ==
    IF order.side = "Ask"
    THEN WithAsks([B EXCEPT !.orders = MapPut(@, order.id, order)],
                  BookSide_append(B.asks, B.heap, order))
    ELSE WithBids([B EXCEPT !.orders = MapPut(@, order.id, order)],
                  BookSide_append(B.bids, B.heap, order))

\* a partial fill that does not write the reduced order to the global index
PartialFill_NoIndexUpdate(B, h, prev_quantity, o) ==
    IF o.side = "Ask"
    THEN [B EXCEPT !.heap[h] = PriceLevel_replace_front(@, o),
                   !.asks.volume = (@ - prev_quantity) + o.quantity]
    ELSE [B EXCEPT !.heap[h] = PriceLevel_replace_front(@, o),
                   !.bids.volume = (@ - prev_quantity) + o.quantity]

\* the partial-fill branch of fill_at_price_level: the head order of level h
\* is reduced in place to o and mirrored into the global index
PartialFill(B, h, prev_quantity, o) ==
    IF o.side = "Ask"
    THEN [B EXCEPT !.heap[h] = PriceLevel_replace_front(@, o),
                   !.orders = MapPut(@, o.id, o),
                   !.asks.volume = (@ - prev_quantity) + o.quantity]
    ELSE [B EXCEPT !.heap[h] = PriceLevel_replace_front(@, o),
                   !.orders = MapPut(@, o.id, o),
                   !.bids.volume = (@ - prev_quantity) + o.quantity]

RECURSIVE FillLoop(_, _, _, _)

\* a full fill that does not lower quantity_left
FullFill_NoDecrement(B, h, quantity_left, res, r) ==
    IF r.result # None
    THEN FillLoop(r.book, h, quantity_left,
                  [res EXCEPT !.done = Append(@, Fill(r.result[1].id, "Full",
                                             r.result[1].price, r.result[1].quantity)),
                              !.quantity_filled = @ + r.result[1].quantity])
    ELSE IF r.book = B
         THEN [book |-> B, result |-> res, diverged |-> TRUE]
         ELSE FillLoop(r.book, h, quantity_left, res)

\* the full-fill branch: r is what self.remove(id) returned.  When it is None
\* and remove changed nothing, the loop condition is unchanged and the loop
\* never exits: diverged.
FullFill(B, h, quantity_left, res, r) ==
    IF r.result # None
    THEN FillLoop(r.book, h, quantity_left - r.result[1].quantity,
                  [res EXCEPT !.done = Append(@, Fill(r.result[1].id, "Full",
                                             r.result[1].price, r.result[1].quantity)),
                              !.quantity_filled = @ + r.result[1].quantity])
    ELSE IF r.book = B
         THEN [book |-> B, result |-> res, diverged |-> TRUE]
         ELSE FillLoop(r.book, h, quantity_left, res)

\* a pass that takes the partial branch also when the head's quantity equals
\* quantity_left (<= in place of <)
FillHead_PartialAtEqual(B, h, quantity_left, res, head) ==
    IF quantity_left <= head.quantity
    THEN FillLoop(PartialFill(B, h, head.quantity,
                              [head EXCEPT !.quantity = @ - quantity_left]),
                  h, 0,
                  [res EXCEPT !.done = Append(@, Fill(head.id, "Partial",
                                                      head.price, quantity_left)),
                              !.quantity_filled = @ + quantity_left])
    ELSE FullFill(B, h, quantity_left, res, OrderBook_remove(B, head.id))

\* a pass whose partial branch leaves quantity_left as it was
FillHead_KeepsLeft(B, h, quantity_left, res, head) ==
    IF quantity_left < head.quantity
    THEN FillLoop(PartialFill(B, h, head.quantity,
                              [head EXCEPT !.quantity = @ - quantity_left]),
                  h, quantity_left,
                  [res EXCEPT !.done = Append(@, Fill(head.id, "Partial",
                                                      head.price, quantity_left)),
                              !.quantity_filled = @ + quantity_left])
    ELSE FullFill(B, h, quantity_left, res, OrderBook_remove(B, head.id))

\* one pass of the while loop with head at the front of the level
FillHead(B, h, quantity_left, res, head) ==
    IF quantity_left < head.quantity
    THEN FillLoop(PartialFill(B, h, head.quantity,
                              [head EXCEPT !.quantity = @ - quantity_left]),
                  h, 0,
                  [res EXCEPT !.done = Append(@, Fill(head.id, "Partial",
                                                      head.price, quantity_left)),
                              !.quantity_filled = @ + quantity_left])
    ELSE FullFill(B, h, quantity_left, res, OrderBook_remove(B, head.id))

\* the while loop of fill_at_price_level
FillLoop(B, h, quantity_left, res) ==
    IF ~(quantity_left > 0 /\ PriceLevel_len(B.heap[h]) > 0)
    THEN [book |-> B, result |-> res, diverged |-> FALSE]
    ELSE FillHead(B, h, quantity_left, res, PriceLevel_front(B.heap[h])[1])

fill_at_price_level(B, price_level, quantity) ==
    FillLoop(B, price_level, quantity, NoResult)

\* the submit loop takes over the fills and not their quantity
Accumulate_NoSum(res, quantity_left, r) ==
    [result |-> [res EXCEPT !.done = @ \o r.result.done],
     quantity_left |-> quantity_left - r.result.quantity_filled,
     book |-> r.book, diverged |-> r.diverged]

\* order_result and quantity_left after fill_at_price_level returned r
Accumulate(res, quantity_left, r) ==
    [result |-> [res EXCEPT !.done = @ \o r.result.done,
                            !.quantity_filled = @ + r.result.quantity_filled],
     quantity_left |-> quantity_left - r.result.quantity_filled,
     book |-> r.book, diverged |-> r.diverged]

RECURSIVE MarketLoop(_, _, _, _)

MarketNext(side, a) ==
    IF a.diverged THEN a ELSE MarketLoop(a.book, side, a.quantity_left, a.result)

MarketLevel(B, side, quantity_left, res, best) ==
    IF best = None
    THEN [book |-> B, result |-> res, diverged |-> FALSE,
          quantity_left |-> quantity_left]
    ELSE MarketNext(side, Accumulate(res, quantity_left,
                              fill_at_price_level(B, best[1], quantity_left)))

\* the loop of submit_market_order
MarketLoop(B, side, quantity_left, res) ==
    IF quantity_left <= 0 \/ ~U32Positive(other_book_side(B, side).num_orders)
    THEN [book |-> B, result |-> res, diverged |-> FALSE,
          quantity_left |-> quantity_left]
    ELSE MarketLevel(B, side, quantity_left, res,
                     iter(side, other_book_side(B, side)))

submit_market_order(B, side, quantity) == MarketLoop(B, side, quantity, NoResult)

RECURSIVE LimitLoop(_, _, _, _, _)

LimitNext(side, price, a) ==
    IF a.diverged THEN a
    ELSE LimitLoop(a.book, side, price, a.quantity_left, a.result)

LimitLevel(B, side, price, quantity_left, res, best) ==
    IF best = None
    THEN [book |-> B, result |-> res, diverged |-> FALSE,
          quantity_left |-> quantity_left]
    ELSE IF \/ quantity_left <= 0
            \/ ~U32Positive(other_book_side(B, side).num_orders)
            \/ ~comparator(side, price, B.heap[best[1]].price)
         THEN [book |-> B, result |-> res, diverged |-> FALSE,
               quantity_left |-> quantity_left]
         ELSE LimitNext(side, price, Accumulate(res, quantity_left,
                              fill_at_price_level(B, best[1], quantity_left)))

\* the loop of submit_limit_order
LimitLoop(B, side, price, quantity_left, res) ==
    LimitLevel(B, side, price, quantity_left, res,
               iter(side, other_book_side(B, side)))

\* the remainder rests also when it is zero (>= in place of >)
RestRemainder_Always(l, resting_order) ==
    IF l.diverged
    THEN [book |-> l.book, result |-> l.result, diverged |-> TRUE]
    ELSE IF l.quantity_left >= 0
         THEN [book |-> OrderBook_append(l.book, resting_order),
               result |-> [l.result EXCEPT !.partial = Some(resting_order)],
               diverged |-> FALSE]
         ELSE [book |-> l.book, result |-> l.result, diverged |-> FALSE]

\* the code after the loop: the remainder rests as resting_order
RestRemainder(l, resting_order) ==
    IF l.diverged
    THEN [book |-> l.book, result |-> l.result, diverged |-> TRUE]
    ELSE IF l.quantity_left > 0
         THEN [book |-> OrderBook_append(l.book, resting_order),
               result |-> [l.result EXCEPT !.partial = Some(resting_order)],
               diverged |-> FALSE]
         ELSE [book |-> l.book, result |-> l.result, diverged |-> FALSE]

RestAfter(l, side, price, id, timestamp) ==
    RestRemainder(l, Order_new(id, side, l.quantity_left, price, timestamp))

\* id and timestamp are what Uuid::new_v4() and Instant::now() return in
\* Order::new
submit_limit_order(B, side, quantity, price, id, timestamp) ==
    RestAfter(LimitLoop(B, side, price, quantity, NoResult), side, price, id,
              timestamp)

\* dropping the last Rc of a level frees it
Referenced(B) ==
    {B.bids.prices[p] : p \in DOMAIN B.bids.prices}
    \cup {B.bids.price_tree[p] : p \in DOMAIN B.bids.price_tree}
    \cup {B.asks.prices[p] : p \in DOMAIN B.asks.prices}
    \cup {B.asks.price_tree[p] : p \in DOMAIN B.asks.price_tree}

DropUnreferenced(B) ==
    [B EXCEPT !.heap = [h \in (DOMAIN B.heap) \cap Referenced(B) |-> B.heap[h]]]

\* ------------------------------------------------------- the state machine
Book == [orders |-> orders, bids |-> bids, asks |-> asks, heap |-> heap]

NoCall == [op |-> "new", side |-> "Bid", quantity |-> 0, price |-> 0, id |-> 0,
           done |-> <<>>, partial |-> None, quantity_filled |-> 0,
           removed |-> None, found |-> None, diverged |-> FALSE]

Init ==
    /\ orders = OrderBook_new.orders
    /\ bids = OrderBook_new.bids
    /\ asks = OrderBook_new.asks
    /\ heap = OrderBook_new.heap
    /\ nextId = 1
    /\ now = 0
    /\ last = NoCall
    /\ pre = OrderBook_new

Store(B) ==
    /\ pre' = Book
    /\ orders' = B.orders
    /\ bids' = B.bids
    /\ asks' = B.asks
    /\ heap' = B.heap

SetBook(B) == Store(DropUnreferenced(B))

\* Instant::now() never goes back
Clock(t) == t \in {now, IF now < MaxTime THEN now + 1 ELSE now}

MarketReturn(side, quantity, r) ==
    /\ SetBook(r.book)
    /\ last' = [NoCall EXCEPT !.op = "market", !.side = side,
                   !.quantity = quantity, !.done = r.result.done,
                   !.partial = r.result.partial,
                   !.quantity_filled = r.result.quantity_filled,
                   !.diverged = r.diverged]

SubmitMarketOrder ==
    /\ ~last.diverged
    /\ \E side \in {"Bid", "Ask"}, quantity \in SubmitQtys :
         MarketReturn(side, quantity, submit_market_order(Book, side, quantity))
    /\ UNCHANGED <<nextId, now>>

LimitReturn(side, quantity, price, t, r) ==
    /\ SetBook(r.book)
    /\ last' = [NoCall EXCEPT !.op = "limit", !.side = side,
                   !.quantity = quantity, !.price = price,
                   !.done = r.result.done,
                   !.partial = r.result.partial,
                   !.quantity_filled = r.result.quantity_filled,
                   !.diverged = r.diverged]
    /\ nextId' = IF r.result.partial # None THEN nextId + 1 ELSE nextId
    /\ now' = IF r.result.partial # None THEN t ELSE now

SubmitLimitOrder ==
    /\ ~last.diverged
    /\ nextId <= MaxIds
    /\ \E side \in {"Bid", "Ask"}, quantity \in SubmitQtys, price \in Prices,
          t \in {now, now + 1} :
         /\ Clock(t)
         /\ LimitReturn(side, quantity, price, t,
                        submit_limit_order(Book, side, quantity, price, nextId, t))

AppendOrder ==
    /\ ~last.diverged
    /\ nextId <= MaxIds
    /\ \E side \in {"Bid", "Ask"}, quantity \in RestQtys, price \in Prices,
          t \in {now, now + 1} :
         /\ Clock(t)
         /\ SetBook(OrderBook_append(Book, Order_new(nextId, side, quantity, price, t)))
         /\ last' = [NoCall EXCEPT !.op = "append", !.side = side,
                        !.quantity = quantity, !.price = price, !.id = nextId]
         /\ now' = t
    /\ nextId' = nextId + 1

RemoveReturn(id, r) ==
    /\ SetBook(r.book)
    /\ last' = [NoCall EXCEPT !.op = "remove", !.id = id, !.removed = r.result]

RemoveOrder ==
    /\ ~last.diverged
    /\ \E id \in Ids : RemoveReturn(id, OrderBook_remove(Book, id))
    /\ UNCHANGED <<nextId, now>>

\* get borrows the book immutably: the call returns and nothing is written
GetOrder ==
    /\ ~last.diverged
    /\ \E id \in Ids :
         /\ Store(Book)
         /\ last' = [NoCall EXCEPT !.op = "get", !.id = id,
                        !.found = OrderBook_get(Book, id)]
    /\ UNCHANGED <<nextId, now>>

Next ==
    \/ SubmitMarketOrder
    \/ SubmitLimitOrder
    \/ AppendOrder
    \/ RemoveOrder
    \/ GetOrder

Spec == Init /\ [][Next]_vars

\* ------------------------------------------ what the claims talk about
RECURSIVE SumFn(_)
SumFn(f) ==
    IF DOMAIN f = {} THEN 0
    ELSE LET k == CHOOSE x \in DOMAIN f : TRUE
         IN f[k] + SumFn(MapDel(f, k))

\* the level stored at price p of side bs
LevelAt(bs, hp, p) == hp[bs.prices[p]]

SeqSet(s) == {s[i] : i \in 1..Len(s)}

\* the orders resting on side bs
Resting(bs, hp) == UNION {SeqSet(LevelAt(bs, hp, p).orders) : p \in DOMAIN bs.prices}

SumQty(S) == SumFn([o \in S |-> o.quantity])

MinOf(a, b) == IF a <= b THEN a ELSE b

SideOf(B, side) == IF side = "Ask" THEN B.asks ELSE B.bids

IsSubmit(l) == l.op \in {"market", "limit"} /\ ~l.diverged

\* price p of a resting order crosses the limit of an incoming order of
\* side side
Crosses(side, limit, p) == IF side = "Bid" THEN p <= limit ELSE p >= limit

\* o has priority over o2 against an incoming order of side side: better
\* price, or the same price and an earlier arrival (ids are issued in order
\* of arrival)
Precedes(side, o, o2) ==
    \/ IF side = "Bid" THEN o.price < o2.price ELSE o.price > o2.price
    \/ o.price = o2.price /\ o.id < o2.id

RECURSIVE PrioritySeq(_, _)
PrioritySeq(side, S) ==
    IF S = {} THEN <<>>
    ELSE LET o == CHOOSE x \in S : \A y \in S \ {x} : Precedes(side, x, y)
         IN <<o>> \o PrioritySeq(side, S \ {o})

\* the places of book B that hold an order: <<side, price, index>>
SideSlots(B, side) ==
    UNION {{<<side, p, i>> : i \in 1..Len(LevelAt(SideOf(B, side), B.heap, p).orders)} :
           p \in DOMAIN SideOf(B, side).prices}

Slots(B) == SideSlots(B, "Bid") \cup SideSlots(B, "Ask")

SlotOrder(B, sl) == LevelAt(SideOf(B, sl[1]), B.heap, sl[2]).orders[sl[3]]

SlotsOf(B, id) == {sl \in Slots(B) : SlotOrder(B, sl).id = id}

HasPartial(l) == \E i \in 1..Len(l.done) : l.done[i].status = "Partial"

HasFull(l) == \E i \in 1..Len(l.done) : l.done[i].status = "Full"

\* ------------------------------------------- a PriceLevel under direct calls
\* PriceLevel and its methods are public.  LevelSpec is one level, the target
\* of handle LevelRef, under append, remove and replace_front called with any
\* order; the other variables stay those of the new book.
LevelRef == Alloc(EmptyMap)

TheLevel == heap[LevelRef]

\* the orders passed as arguments, all made at the same instant
ArgOrders ==
    {Order_new(id, side, quantity, price, now) :
        id \in Ids, side \in {"Bid", "Ask"}, quantity \in RestQtys,
        price \in Prices}

\* the volumes the level is followed through
VolumeInRange(pl) == pl.volume \in (-(MaxQty * MaxLevelLen))..(MaxQty * MaxLevelLen)

LevelInit ==
    /\ orders = OrderBook_new.orders
    /\ bids = OrderBook_new.bids
    /\ asks = OrderBook_new.asks
    /\ \E price \in Prices : heap = MapPut(EmptyMap, LevelRef, PriceLevel_new(price))
    /\ nextId = 1
    /\ now = 0
    /\ last = NoCall
    /\ pre = OrderBook_new

LevelStore(pl) ==
    /\ VolumeInRange(pl)
    /\ heap' = [heap EXCEPT ![LevelRef] = pl]
    /\ UNCHANGED <<orders, bids, asks, nextId, now, pre>>

LevelAppend ==
    /\ PriceLevel_len(TheLevel) < MaxLevelLen
    /\ \E order \in ArgOrders :
         /\ LevelStore(PriceLevel_append(TheLevel, order))
         /\ last' = [NoCall EXCEPT !.op = "level_append", !.id = order.id]

LevelRemove ==
    \E order \in ArgOrders :
        /\ LevelStore(PriceLevel_remove(TheLevel, order).level)
        /\ last' = [NoCall EXCEPT !.op = "level_remove", !.id = order.id,
                       !.removed = PriceLevel_remove(TheLevel, order).result]

LevelReplaceFront ==
    \E order \in ArgOrders :
        /\ LevelStore(PriceLevel_replace_front(TheLevel, order))
        /\ last' = [NoCall EXCEPT !.op = "level_replace_front", !.id = order.id]

LevelNext == LevelAppend \/ LevelRemove \/ LevelReplaceFront

LevelSpec == LevelInit /\ [][LevelNext]_vars

\* --------------------------------------------- a BookSide under direct calls
\* BookSide and its methods are public.  SideSpec is one side, held in bids
\* with its levels in heap, under append and remove called with any order;
\* orders and asks stay those of the new book.
SideInit == Init

\* num_orders -= 1 on a u32 that is 0: a debug build panics there, a release
\* build wraps
Underflows(bs, order) == order.price \in DOMAIN bs.prices /\ bs.num_orders = 0

\* the counters and volumes the side is followed through
SideInRange(bs, hp) ==
    /\ bs.num_orders >= -1
    /\ bs.volume \in (-MaxQty)..(MaxQty * MaxSideOrders)
    /\ \A h \in DOMAIN hp : hp[h].volume \in (-MaxQty)..(MaxQty * MaxSideOrders)

\* the orders passed as arguments: BookSide reads no side field, so they are
\* all bids
SideArgOrders == {order \in ArgOrders : order.side = "Bid"}

\* the call made, with the order it was given
SideCall(op, order) ==
    [NoCall EXCEPT !.op = op, !.id = order.id, !.side = order.side,
                   !.quantity = order.quantity, !.price = order.price]

SideAppend ==
    /\ last.op # "side_panic"
    /\ Cardinality(SideSlots(Book, "Bid")) < MaxSideOrders
    /\ \E order \in SideArgOrders :
         /\ SetBook(WithBids(Book, BookSide_append(bids, heap, order)))
         /\ last' = SideCall("side_append", order)
    /\ UNCHANGED <<nextId, now>>

SideRemoveReturn(order, r) ==
    /\ SideInRange(r.side, r.heap)
    /\ SetBook(WithBids(Book, r))
    /\ last' = [SideCall("side_remove", order) EXCEPT !.removed = r.result]

SideRemove ==
    /\ last.op # "side_panic"
    /\ \E order \in SideArgOrders, build \in {"debug", "release"} :
         IF Underflows(bids, order) /\ build = "debug"
         THEN /\ Store(Book)
              /\ last' = SideCall("side_panic", order)
         ELSE SideRemoveReturn(order, BookSide_remove(bids, heap, order))
    /\ UNCHANGED <<nextId, now>>

SideNext == SideAppend \/ SideRemove

SideSpec == SideInit /\ [][SideNext]_vars

\* ------------------------------------------------------------------- C1
SideCounts(bs, hp) ==
    /\ bs.num_orders = SumFn([p \in DOMAIN bs.prices |-> Len(LevelAt(bs, hp, p).orders)])
    /\ bs.volume = SumFn([p \in DOMAIN bs.prices |-> LevelAt(bs, hp, p).volume])
    /\ bs.depth = Cardinality({p \in DOMAIN bs.prices : Len(LevelAt(bs, hp, p).orders) > 0})

\* C1: after every OrderBook operation, on each side num_orders is the sum of
\* the lengths of its price levels, volume is the sum of its levels' volumes
\* and depth is the number of stored non-empty price levels; also right after
\* a partial fill.
C1_SideCounts == SideCounts(bids, heap) /\ SideCounts(asks, heap)

\* a call has just filled one order and reduced the next, which still rests
C1_Witness ==
    /\ IsSubmit(last) /\ HasPartial(last) /\ HasFull(last)
    /\ other_book_side(Book, last.side).volume > 0

\* ------------------------------------------------------------------- C2
\* C2: after every OrderBook operation, an id is a key of the global index if
\* and only if an order with that id sits in exactly one place of the book,
\* which is in the level at its price on the side of its side field, and the
\* index entry equals the level's entry in every field.
C2_IndexMirrorsLevels ==
    /\ \A id \in DOMAIN orders :
         /\ Cardinality(SlotsOf(Book, id)) = 1
         /\ \A sl \in SlotsOf(Book, id) :
              /\ sl[1] = orders[id].side
              /\ sl[2] = orders[id].price
              /\ SlotOrder(Book, sl) = orders[id]
    /\ \A sl \in Slots(Book) : SlotOrder(Book, sl).id \in DOMAIN orders

\* a partial fill has just reduced an order that rests with two others
C2_Witness ==
    /\ IsSubmit(last) /\ HasPartial(last)
    /\ Cardinality(DOMAIN orders) = 3

\* ------------------------------------------------------------------- C3
OppSide(side) == IF side = "Bid" THEN "Ask" ELSE "Bid"

\* the orders that rested on the side opposing the last call, before it
PreOpp == Resting(SideOf(pre, OppSide(last.side)), pre.heap)

\* the orders resting now on the side opposing the last call
PostOpp == Resting(SideOf(Book, OppSide(last.side)), heap)

IdsOf(S) == {o.id : o \in S}

FillIds(l) == {l.done[i].order_id : i \in 1..Len(l.done)}

\* C3: the fills of a submission follow price-time priority: their order ids
\* are a prefix of the opposing side's resting orders sorted by best price and,
\* at equal price, by arrival; and every order ahead of a filled one no longer
\* rests.
C3_PriceTimePriority ==
    IsSubmit(last) =>
        /\ Len(last.done) <= Cardinality(PreOpp)
        /\ \A i \in 1..Len(last.done) :
             /\ last.done[i].order_id = PrioritySeq(last.side, PreOpp)[i].id
             /\ \A j \in 1..(i - 1) :
                  PrioritySeq(last.side, PreOpp)[j].id \notin IdsOf(PostOpp)

\* the example of the spec: one order at the best price, then two at the next
\* price in their order of arrival
C3_Witness ==
    /\ IsSubmit(last) /\ Len(last.done) = 3
    /\ last.done[1].price # last.done[2].price
    /\ last.done[2].price = last.done[3].price
    /\ last.done[3].status = "Partial"

\* ------------------------------------------------------------------- C4
IsLimit(l) == l.op = "limit" /\ ~l.diverged

IsMarket(l) == l.op = "market" /\ ~l.diverged

\* C4: a limit order trades only across prices that cross its limit, boundary
\* included: every fill is of an opposing order whose price crosses the limit
\* and is made at that price, and an order resting at exactly the limit price
\* is filled when the orders ahead of it leave quantity for it.
C4_LimitCrossing ==
    IsLimit(last) =>
        /\ \A i \in 1..Len(last.done) :
             \E o \in PreOpp :
                /\ o.id = last.done[i].order_id
                /\ Crosses(last.side, last.price, o.price)
                /\ last.done[i].price = o.price
        /\ \A o \in PreOpp :
             (/\ o.price = last.price
              /\ SumQty({x \in PreOpp : Precedes(last.side, x, o)}) < last.quantity)
             => o.id \in FillIds(last)

\* a fill at exactly the limit price, a remainder that rests, and an opposing
\* order beyond the limit that was left alone
C4_Witness ==
    /\ IsLimit(last) /\ last.partial # None
    /\ \E i \in 1..Len(last.done) : last.done[i].price = last.price
    /\ PostOpp # {}
    /\ PostOpp \subseteq PreOpp

\* ------------------------------------------------------------------- C5
\* C5: a market order of quantity q > 0 fills the minimum of q and the volume
\* resting on the opposing side before the call, and leaves that side empty
\* when q exceeds that volume.
C5_MarketFilled ==
    (IsMarket(last) /\ last.quantity > 0) =>
        /\ last.quantity_filled = MinOf(last.quantity, SumQty(PreOpp))
        /\ last.quantity > SumQty(PreOpp) =>
             /\ SideOf(Book, OppSide(last.side)) = BookSide_new
             /\ PostOpp = {}

\* a market order has drained two orders and wanted more
C5_Witness ==
    /\ IsMarket(last) /\ Len(last.done) >= 2
    /\ last.quantity > last.quantity_filled

\* ------------------------------------------------------------------- C6
\* the levels of side side of book B, by price
LevelsOf(B, side) ==
    [p \in DOMAIN SideOf(B, side).prices |-> LevelAt(SideOf(B, side), B.heap, p)]

\* C6: a market order never places an order on the book: no resting order in
\* its result, the submitting side unchanged in levels, num_orders, volume and
\* depth, and no new id in the global index.
C6_MarketNeverRests ==
    IsMarket(last) =>
        /\ last.partial = None
        /\ SideOf(Book, last.side) = SideOf(pre, last.side)
        /\ LevelsOf(Book, last.side) = LevelsOf(pre, last.side)
        /\ DOMAIN orders \subseteq DOMAIN pre.orders

\* part of a market order stayed unfilled while its own side holds orders
C6_Witness ==
    /\ IsMarket(last) /\ last.quantity_filled > 0
    /\ last.quantity > last.quantity_filled
    /\ Resting(SideOf(Book, last.side), heap) # {}

\* ------------------------------------------------------------------- C7
\* C7: a limit order of quantity q > 0 at price p fills the minimum of q and the
\* volume that rested on the opposing side at prices crossing p.
C7_LimitFilled ==
    (IsLimit(last) /\ last.quantity > 0) =>
        last.quantity_filled =
            MinOf(last.quantity,
                  SumQty({o \in PreOpp : Crosses(last.side, last.price, o.price)}))

\* a limit order filled in full out of more crossing volume than it asked for,
\* with an order at its limit price
C7_Witness ==
    /\ IsLimit(last) /\ last.quantity_filled = last.quantity
    /\ HasPartial(last) /\ HasFull(last)
    /\ \E o \in PreOpp : o.price = last.price

\* ------------------------------------------------------------------- C8
\* C8: a limit order of quantity q > 0 returns a resting order if and only if
\* quantity_filled < q; the resting order has the submitted side and price,
\* quantity q - quantity_filled and an id no order had, and get returns it; a
\* limit order filled in full adds no order to the index or to either side.
C8_RestingOrder ==
    (IsLimit(last) /\ last.quantity > 0) =>
        /\ (last.partial # None) <=> (last.quantity_filled < last.quantity)
        /\ last.partial # None =>
             /\ last.partial[1].side = last.side
             /\ last.partial[1].price = last.price
             /\ last.partial[1].quantity = last.quantity - last.quantity_filled
             /\ last.partial[1].id \notin DOMAIN pre.orders
             /\ last.partial[1].id \notin FillIds(last)
             /\ OrderBook_get(Book, last.partial[1].id) = Some(last.partial[1])
        /\ last.quantity_filled = last.quantity =>
             /\ DOMAIN orders \subseteq DOMAIN pre.orders
             /\ IdsOf(Resting(bids, heap)) \subseteq IdsOf(Resting(pre.bids, pre.heap))
             /\ IdsOf(Resting(asks, heap)) \subseteq IdsOf(Resting(pre.asks, pre.heap))

\* a limit order was filled in part and its remainder rests
C8_Witness ==
    /\ IsLimit(last) /\ last.partial # None
    /\ last.quantity_filled > 0
    /\ last.partial[1].id \in DOMAIN orders

\* ------------------------------------------------------------------- C9
\* the queue at the price of order o on its side of book B
QueueOf(B, o) ==
    IF o.price \in DOMAIN SideOf(B, o.side).prices
    THEN LevelAt(SideOf(B, o.side), B.heap, o.price).orders
    ELSE <<>>

\* the partially filled order o, reduced by quantity q, is at the front of its
\* level, followed by the orders that were behind it
KeepsPlace(o, q) ==
    /\ QueueOf(Book, o) # <<>>
    /\ Head(QueueOf(Book, o)) = [o EXCEPT !.quantity = @ - q]
    /\ \E k \in 1..Len(QueueOf(pre, o)) :
         /\ QueueOf(pre, o)[k] = o
         /\ Tail(QueueOf(Book, o)) = SubSeq(QueueOf(pre, o), k + 1, Len(QueueOf(pre, o)))

\* C9: an order that a submission fills in part keeps its id, side, price and
\* timestamp and stays at the front of its level; its quantity decreases by the
\* Partial fill's quantity in the level and in the global index.
C9_PartialFillKeepsOrder ==
    IsSubmit(last) =>
        \A i \in 1..Len(last.done) :
            last.done[i].status = "Partial" =>
                /\ last.done[i].order_id \in DOMAIN pre.orders
                /\ OrderBook_get(Book, last.done[i].order_id) =
                       Some([pre.orders[last.done[i].order_id]
                                EXCEPT !.quantity = @ - last.done[i].quantity])
                /\ KeepsPlace(pre.orders[last.done[i].order_id], last.done[i].quantity)

\* an order was filled in part while another one waits behind it
C9_Witness ==
    /\ IsSubmit(last)
    /\ \E i \in 1..Len(last.done) :
         /\ last.done[i].status = "Partial"
         /\ last.done[i].order_id \in DOMAIN orders
         /\ Len(QueueOf(Book, orders[last.done[i].order_id])) >= 2

\* ------------------------------------------------------------------ C10
\* C10: when a submission returns, every order it reports with a Full fill is
\* off the book (absent from the index and from every level) and every order
\* it reports with a Partial fill is still on the book.
C10_FullFillsLeave ==
    IsSubmit(last) =>
        \A i \in 1..Len(last.done) :
            /\ last.done[i].status = "Full" =>
                 /\ OrderBook_get(Book, last.done[i].order_id) = None
                 /\ SlotsOf(Book, last.done[i].order_id) = {}
            /\ last.done[i].status = "Partial" =>
                 /\ OrderBook_get(Book, last.done[i].order_id) # None
                 /\ SlotsOf(Book, last.done[i].order_id) # {}

\* two orders filled in full and a third in part by one market order
C10_Witness ==
    /\ IsMarket(last) /\ Len(last.done) = 3
    /\ last.done[1].status = "Full" /\ last.done[2].status = "Full"
    /\ last.done[3].status = "Partial"
    /\ DOMAIN orders = {last.done[3].order_id}

\* ------------------------------------------------------------------ C11
\* the queue at price p of side side of book B, empty when no level is stored
QueueAt(B, side, p) ==
    IF p \in DOMAIN SideOf(B, side).prices
    THEN LevelAt(SideOf(B, side), B.heap, p).orders
    ELSE <<>>

IsNot(id, o) == o.id # id

\* queue s without the orders of id id, the others in their order
Without(s, id) == SelectSeq(s, LAMBDA o : IsNot(id, o))

\* the last call was remove(id) for an id that rested
RemovedResting == last.op = "remove" /\ last.id \in DOMAIN pre.orders

\* C11: remove(id) for the id of a resting order returns that order as it
\* rested (its current quantity); afterwards get(id) is absent, the order is in
\* no level, its side's num_orders is one less and its volume less by the
\* order's quantity, and every other resting order keeps its fields and its
\* place in its queue, on both sides.
C11_RemoveResting ==
    RemovedResting =>
        /\ last.removed = Some(pre.orders[last.id])
        /\ \E sl \in SlotsOf(pre, last.id) : last.removed = Some(SlotOrder(pre, sl))
        /\ OrderBook_get(Book, last.id) = None
        /\ SlotsOf(Book, last.id) = {}
        /\ orders = MapDel(pre.orders, last.id)
        /\ SideOf(Book, last.removed[1].side).num_orders =
               SideOf(pre, last.removed[1].side).num_orders - 1
        /\ SideOf(Book, last.removed[1].side).volume =
               SideOf(pre, last.removed[1].side).volume - last.removed[1].quantity
        /\ SideOf(Book, OppSide(last.removed[1].side)) =
               SideOf(pre, OppSide(last.removed[1].side))
        /\ \A side \in {"Bid", "Ask"}, p \in Prices :
               QueueAt(Book, side, p) = Without(QueueAt(pre, side, p), last.id)

\* the middle one of three orders queued at one price has been removed
C11_Witness ==
    /\ RemovedResting
    /\ Len(QueueOf(pre, pre.orders[last.id])) = 3
    /\ QueueOf(pre, pre.orders[last.id])[2].id = last.id
    /\ Len(QueueOf(Book, pre.orders[last.id])) = 2

\* ------------------------------------------------------------------ C12
\* the last call was remove(id) for an id that rested nowhere
RemovedAbsent == last.op = "remove" /\ SlotsOf(pre, last.id) = {}

\* remove(id) called now would return absent and change nothing
RemoveIsNoOp(id) == OrderBook_remove(Book, id) = [book |-> Book, result |-> None]

\* C12: remove(id) for an id that is not resting returns absent and leaves the
\* whole book as it was: index, levels, num_orders, volume and depth of both
\* sides.  That is the case for an id never issued, for the id of an order
\* just removed (a second remove) and for the id of an order just filled in
\* full.
C12_RemoveAbsent ==
    /\ RemovedAbsent => (last.removed = None /\ Book = pre)
    /\ \A id \in Ids : id >= nextId => RemoveIsNoOp(id)
    /\ (last.op = "remove" /\ last.removed # None) => RemoveIsNoOp(last.id)
    /\ IsSubmit(last) =>
          \A i \in 1..Len(last.done) :
              last.done[i].status = "Full" => RemoveIsNoOp(last.done[i].order_id)

\* remove has returned absent for an id that was issued and rests no more,
\* on a book that holds other orders
C12_Witness ==
    /\ RemovedAbsent
    /\ last.id < nextId
    /\ last.removed = None
    /\ DOMAIN orders # {}

\* ------------------------------------------------------------------ C13
\* the ids of the orders that the last call filled in part
PartialIds(l) == {l.done[i].order_id : i \in {j \in 1..Len(l.done) : l.done[j].status = "Partial"}}

\* C13: get(id) returns the order resting with that id, as its level and the
\* global index hold it, and absent for an id that rests nowhere; it changes
\* no part of the book.  What get returns for an id is the resting order that
\* submit_limit_order returned when it created it, and stays so over every
\* call that does not fill that order in part.
C13_Get ==
    /\ last.op = "get" =>
          /\ Book = pre
          /\ SlotsOf(pre, last.id) = {} => last.found = None
          /\ \A sl \in SlotsOf(pre, last.id) :
                /\ last.found = Some(SlotOrder(pre, sl))
                /\ last.found = Some(pre.orders[last.id])
    /\ (IsLimit(last) /\ last.partial # None) =>
          OrderBook_get(Book, last.partial[1].id) = Some(last.partial[1])
    /\ \A id \in (DOMAIN orders) \cap (DOMAIN pre.orders) :
          (~last.diverged /\ id \notin PartialIds(last)) =>
              OrderBook_get(Book, id) = OrderBook_get(pre, id)

\* get has returned a resting ask while other orders rest
C13_Witness ==
    /\ last.op = "get"
    /\ last.found # None
    /\ last.found[1].side = "Ask"
    /\ Cardinality(DOMAIN orders) >= 2

\* ------------------------------------------------------------------ C14
\* the two indices of side bs agree and hold no empty level
IndicesAgree(bs, hp) ==
    /\ DOMAIN bs.prices = DOMAIN bs.price_tree
    /\ \A p \in DOMAIN bs.prices :
          /\ bs.prices[p] = bs.price_tree[p]
          /\ bs.prices[p] \in DOMAIN hp
          /\ hp[bs.prices[p]].price = p
          /\ PriceLevel_len(hp[bs.prices[p]]) > 0
          /\ \A p2 \in DOMAIN bs.prices : bs.prices[p2] = bs.prices[p] => p2 = p
    /\ bs.depth = Cardinality(DOMAIN bs.prices)
    /\ bs.depth = Cardinality(DOMAIN bs.price_tree)

\* what removing order o did to the indices and the depth of its side: P is
\* the book before the removal and B the book after it
LevelCleanup(P, B, o) ==
    /\ Len(QueueOf(P, o)) = 1 =>
          /\ o.price \notin DOMAIN SideOf(B, o.side).prices
          /\ o.price \notin DOMAIN SideOf(B, o.side).price_tree
          /\ SideOf(B, o.side).depth = SideOf(P, o.side).depth - 1
    /\ Len(QueueOf(P, o)) > 1 =>
          /\ o.price \in DOMAIN SideOf(B, o.side).prices
          /\ o.price \in DOMAIN SideOf(B, o.side).price_tree
          /\ SideOf(B, o.side).depth = SideOf(P, o.side).depth
    /\ \A p \in Prices \ {o.price} :
          /\ p \in DOMAIN SideOf(B, o.side).prices <=> p \in DOMAIN SideOf(P, o.side).prices
          /\ p \in DOMAIN SideOf(B, o.side).price_tree <=>
                 p \in DOMAIN SideOf(P, o.side).price_tree

\* C14: in every reachable state, on each side the direct price index and the
\* ordered price index hold the same prices and the same level for each price,
\* no stored level is empty and depth is the size of both indices; removing
\* the only order at a price deletes the price from both indices and lowers
\* depth by exactly one, and removing one of several orders at a price leaves
\* the price in both indices and depth unchanged.
C14_IndicesAndDepth ==
    /\ IndicesAgree(bids, heap)
    /\ IndicesAgree(asks, heap)
    /\ RemovedResting => LevelCleanup(pre, Book, pre.orders[last.id])

\* the only order at a price was removed from a side that keeps another level
C14_Witness ==
    /\ RemovedResting
    /\ Len(QueueOf(pre, pre.orders[last.id])) = 1
    /\ SideOf(Book, pre.orders[last.id].side).depth = 1
    /\ SideOf(pre, pre.orders[last.id].side).depth = 2

\* ------------------------------------------------------------------ C15
\* the last call was append(order) of an order with a fresh id
Appended == last.op = "append" /\ last.id \notin DOMAIN pre.orders

\* the result and the book of remove(id) called now, with the levels it
\* emptied freed
RemoveNow(id) ==
    [book |-> DropUnreferenced(OrderBook_remove(Book, id).book),
     result |-> OrderBook_remove(Book, id).result]

\* C15: round trip.  append(order) with a fresh id followed at once by
\* remove(order.id) returns that order and leaves the side with the depth,
\* volume, num_orders and price levels, and the book with the global index,
\* that they had before the append.
C15_AppendRemoveRoundTrip ==
    Appended =>
        /\ RemoveNow(last.id).result = Some(orders[last.id])
        /\ orders[last.id].side = last.side
        /\ orders[last.id].price = last.price
        /\ orders[last.id].quantity = last.quantity
        /\ SideOf(RemoveNow(last.id).book, last.side).depth = SideOf(pre, last.side).depth
        /\ SideOf(RemoveNow(last.id).book, last.side).volume = SideOf(pre, last.side).volume
        /\ SideOf(RemoveNow(last.id).book, last.side).num_orders =
               SideOf(pre, last.side).num_orders
        /\ LevelsOf(RemoveNow(last.id).book, last.side) = LevelsOf(pre, last.side)
        /\ RemoveNow(last.id).book.orders = pre.orders
        /\ RemoveNow(last.id).book = pre

\* an order was appended behind another one at its price, with a level at
\* another price on the same side
C15_Witness ==
    /\ Appended
    /\ Len(QueueOf(Book, orders[last.id])) = 2
    /\ SideOf(Book, last.side).depth = 2
    /\ RemoveNow(last.id).result # None

\* ------------------------------------------------------------------ C16
\* the OrderResult that the last call returned
ResultOf(l) ==
    [done |-> l.done, partial |-> l.partial, quantity_filled |-> l.quantity_filled]

\* C16: submit_market_order and submit_limit_order called with a quantity that
\* is zero or negative leave the book unchanged and report something other
\* than the ordinary result with no fills.
C16_RejectsNonPositive ==
    (IsSubmit(last) /\ last.quantity <= 0) =>
        /\ Book = pre
        /\ ResultOf(last) # NoResult

\* ------------------------------------------------------------------ C17
RECURSIVE SumSeq(_)
\* the sum of the quantities of the orders of queue s
SumSeq(s) == IF s = <<>> THEN 0 ELSE Head(s).quantity + SumSeq(Tail(s))

\* C17: after any sequence of PriceLevel.append, PriceLevel.remove and
\* PriceLevel.replace_front calls with any arguments, the volume of the level
\* is the sum of the quantities of the orders in its queue.
C17_LevelVolume == TheLevel.volume = SumSeq(TheLevel.orders)

\* ------------------------------------------------------------------ C18
\* the order that the last call of SideSpec was given
LastOrder == Order_new(last.id, last.side, last.quantity, last.price, now)

\* C18: BookSide.remove(order) for an order that is not resting on the side,
\* because there is no level at its price or because the level at its price
\* does not hold it, returns absent and changes nothing: num_orders, volume,
\* depth and every level are as before; and num_orders never goes below zero.
C18_SideRemoveNotResting ==
    /\ bids.num_orders >= 0
    /\ last.op # "side_panic"
    /\ (last.op = "side_remove" /\ LastOrder \notin Resting(pre.bids, pre.heap)) =>
          /\ last.removed = None
          /\ bids = pre.bids
          /\ LevelsOf(Book, "Bid") = LevelsOf(pre, "Bid")

\* ------------------------------------------------------------------ C19
\* the prices of the levels that side bs stores
StoredPrices(bs, hp) == {hp[bs.prices[p]].price : p \in DOMAIN bs.prices}

\* r is the stored level of side bs at price p
IsLevelAt(bs, hp, r, p) ==
    /\ r # None
    /\ hp[r[1]].price = p
    /\ p \in DOMAIN bs.prices
    /\ r[1] = bs.prices[p]

BestLevels(bs, hp) ==
    /\ (min_price_level(bs) = None) <=> (StoredPrices(bs, hp) = {})
    /\ (max_price_level(bs) = None) <=> (StoredPrices(bs, hp) = {})
    /\ (min_price_level(bs) = None) <=> (bs.depth = 0)
    /\ (max_price_level(bs) = None) <=> (bs.depth = 0)
    /\ StoredPrices(bs, hp) # {} =>
          /\ IsLevelAt(bs, hp, min_price_level(bs), SetMin(StoredPrices(bs, hp)))
          /\ IsLevelAt(bs, hp, max_price_level(bs), SetMax(StoredPrices(bs, hp)))

\* C19: in every reachable state, on each side min_price_level returns the
\* stored level of the lowest price and max_price_level the stored level of
\* the highest price, and each returns absent exactly when the side stores no
\* level, which is when depth is 0.  Matching drains the asks from their
\* lowest price and the bids from their highest price.
C19_BestPriceLevel ==
    /\ BestLevels(bids, heap)
    /\ BestLevels(asks, heap)
    /\ iter("Bid", asks) = min_price_level(asks)
    /\ iter("Ask", bids) = max_price_level(bids)
    /\ (IsSubmit(last) /\ Len(last.done) > 0) =>
          last.done[1].price =
              IF last.side = "Bid"
              THEN SetMin(StoredPrices(pre.asks, pre.heap))
              ELSE SetMax(StoredPrices(pre.bids, pre.heap))

\* a bid was matched against asks at two prices, the lower one first, while
\* the bids hold a level
C19_Witness ==
    /\ IsSubmit(last) /\ last.side = "Bid"
    /\ pre.asks.depth = 2
    /\ Len(last.done) >= 2
    /\ last.done[1].price < last.done[Len(last.done)].price
    /\ bids.depth = 1

\* ------------------------------------------------------------------ C20
\* fill f is priced at the price of the resting order it filled, which is the
\* price of the level the order sat in before the call
AtRestingPrice(f) ==
    /\ f.order_id \in DOMAIN pre.orders
    /\ f.price = pre.orders[f.order_id].price
    /\ \A sl \in SlotsOf(pre, f.order_id) :
          /\ f.price = sl[2]
          /\ f.price = LevelAt(SideOf(pre, sl[1]), pre.heap, sl[2]).price

\* price a is not behind price b in the order in which an incoming order of
\* side side meets prices
NotBehind(side, a, b) == IF side = "Bid" THEN a <= b ELSE a >= b

\* C20: every fill is priced at the resting order's own price, the price of
\* the level it sat in, whatever the incoming limit price; so each fill of a
\* limit Bid at p has a price <= p and each fill of a limit Ask at p a price
\* >= p, and the fill prices of one result are non-decreasing for a Bid and
\* non-increasing for an Ask.
C20_FillPrices ==
    IsSubmit(last) =>
        /\ \A i \in 1..Len(last.done) :
              /\ AtRestingPrice(last.done[i])
              /\ IsLimit(last) => NotBehind(last.side, last.done[i].price, last.price)
        /\ \A i \in 1..Len(last.done), j \in 1..Len(last.done) :
              i < j => NotBehind(last.side, last.done[i].price, last.done[j].price)

\* a limit bid was filled at a price below its limit and then at its limit
C20_Witness ==
    /\ IsLimit(last) /\ last.side = "Bid"
    /\ Len(last.done) >= 2
    /\ last.done[1].price < last.price
    /\ last.done[Len(last.done)].price = last.price

\* ------------------------------------------------------------------ C21
\* C21: every resting order has a quantity > 0, in its level and in the global
\* index: an order filled in part is left with a quantity > 0, and an order
\* whose quantity is consumed exactly is filled in full and removed.
C21_RestingQuantityPositive ==
    /\ \A sl \in Slots(Book) : SlotOrder(Book, sl).quantity > 0
    /\ \A id \in DOMAIN orders : orders[id].quantity > 0
    /\ IsSubmit(last) =>
          \A i \in 1..Len(last.done) :
              /\ last.done[i].status = "Partial" =>
                    /\ last.done[i].order_id \in DOMAIN orders
                    /\ orders[last.done[i].order_id].quantity > 0
              /\ last.done[i].quantity = pre.orders[last.done[i].order_id].quantity =>
                    /\ last.done[i].status = "Full"
                    /\ last.done[i].order_id \notin DOMAIN orders
                    /\ SlotsOf(Book, last.done[i].order_id) = {}

\* a submission has consumed exactly the quantity of the order at the head of
\* a level, which is gone, and the order behind it rests
C21_Witness ==
    /\ IsSubmit(last) /\ last.quantity > 1
    /\ Len(last.done) = 1
    /\ last.done[1].quantity = last.quantity
    /\ last.done[1].order_id \notin DOMAIN orders
    /\ \E o \in PostOpp : o.price = last.done[1].price

\* ------------------------------------- the loops of a submission, pass by pass
\* StepSpec runs submit_market_order and submit_limit_order one loop pass at
\* a time.  last is the frame of the call in progress: pc is where it stands
\* ("submit": head of the loop of the submit function, "level": head of the
\* while loop of fill_at_price_level, "after": behind the submit loop), the
\* quantity_left, done and quantity_filled of the submit function, and
\* level, level_left, level_done and level_filled for the price_level,
\* quantity_left and order_result of fill_at_price_level.  pass is what the
\* last step did; resting_before and left_before are the number of orders
\* resting on the opposing side and the quantity left before the last pass
\* of the while loop, resting_at_entry the number of orders when the while
\* loop was entered; passes and entries count the passes of the while loop
\* and the calls of fill_at_price_level in this call.  pre is the book when
\* the call was made.
StepIdle ==
    [pc |-> "idle", op |-> "new", side |-> "Bid", quantity |-> 0, price |-> 0,
     quantity_left |-> 0, done |-> <<>>, quantity_filled |-> 0,
     level |-> None, level_left |-> 0, level_done |-> <<>>, level_filled |-> 0,
     pass |-> "none", fault |-> FALSE, resting_before |-> 0, left_before |-> 0,
     resting_at_entry |-> 0, passes |-> 0, entries |-> 0]

\* the number of orders resting on the side opposing side side
OppCount(B, side) == Cardinality(SideSlots(B, OppSide(side)))

StepInit ==
    /\ orders = OrderBook_new.orders
    /\ bids = OrderBook_new.bids
    /\ asks = OrderBook_new.asks
    /\ heap = OrderBook_new.heap
    /\ nextId = 1
    /\ now = 0
    /\ last = StepIdle
    /\ pre = OrderBook_new

StepBook(B) ==
    /\ orders' = B.orders
    /\ bids' = B.bids
    /\ asks' = B.asks
    /\ heap' = B.heap

\* a call that runs to its end in one step leaves no frame
StepWhole(B) ==
    /\ StepBook(B)
    /\ pre' = B
    /\ last' = StepIdle

\* the frame on entry of a submit function
StepFrame(op, side, quantity, price) ==
    [StepIdle EXCEPT !.pc = "submit", !.op = op, !.side = side,
                     !.quantity = quantity, !.price = price,
                     !.quantity_left = quantity, !.pass = "call"]

StepSubmitMarketOrder ==
    /\ last.pc = "idle"
    /\ \E side \in {"Bid", "Ask"}, quantity \in SubmitQtys :
         last' = StepFrame("market", side, quantity, 0)
    /\ pre' = Book
    /\ UNCHANGED <<orders, bids, asks, heap, nextId, now>>

StepSubmitLimitOrder ==
    /\ last.pc = "idle"
    /\ nextId <= MaxIds
    /\ \E side \in {"Bid", "Ask"}, quantity \in SubmitQtys, price \in Prices :
         last' = StepFrame("limit", side, quantity, price)
    /\ pre' = Book
    /\ UNCHANGED <<orders, bids, asks, heap, nextId, now>>

\* break
StepBreak(c) == [c EXCEPT !.pc = "after", !.pass = "break"]

\* the call of fill_at_price_level(best_price, quantity_left)
StepEnter(B, c, best) ==
    [c EXCEPT !.pc = "level", !.pass = "enter", !.level = best,
              !.level_left = c.quantity_left, !.level_done = <<>>,
              !.level_filled = 0,
              !.resting_at_entry = OppCount(B, c.side),
              !.entries = @ + 1]

\* the head of the loop of submit_market_order and of submit_limit_order;
\* best is what iter returned
StepLoopHead(B, c, best) ==
    IF c.op = "market"
    THEN IF \/ c.quantity_left <= 0
            \/ ~U32Positive(other_book_side(B, c.side).num_orders)
            \/ best = None
         THEN StepBreak(c)
         ELSE StepEnter(B, c, best)
    ELSE IF \/ best = None
            \/ c.quantity_left <= 0
            \/ ~U32Positive(other_book_side(B, c.side).num_orders)
            \/ ~comparator(c.side, c.price, B.heap[best[1]].price)
         THEN StepBreak(c)
         ELSE StepEnter(B, c, best)

StepSubmitLoop ==
    /\ last.pc = "submit"
    /\ last' = StepLoopHead(Book, last, iter(last.side, other_book_side(Book, last.side)))
    /\ UNCHANGED <<orders, bids, asks, heap, nextId, now, pre>>

\* the frame before a pass of the while loop
StepMeasured(B, c) ==
    [c EXCEPT !.resting_before = OppCount(B, c.side),
              !.left_before = c.level_left,
              !.passes = @ + 1]

\* fill_at_price_level returns: the submit loop adds its result to its own
StepLevelReturn(B, c) ==
    /\ StepBook(DropUnreferenced(B))
    /\ last' = [c EXCEPT !.pc = "submit", !.pass = "return", !.level = None,
                         !.done = @ \o c.level_done,
                         !.quantity_filled = @ + c.level_filled,
                         !.quantity_left = @ - c.level_filled]

\* the partial branch of a pass
StepPartial(B, c, head) ==
    /\ StepBook(PartialFill(B, c.level[1], head.quantity,
                            [head EXCEPT !.quantity = @ - c.level_left]))
    /\ last' = [c EXCEPT !.pass = "partial",
                         !.level_done = Append(@, Fill(head.id, "Partial", head.price,
                                                       c.level_left)),
                         !.level_filled = @ + c.level_left,
                         !.level_left = 0]

\* the full branch of a pass; r is what self.remove(id) returned
StepFull(c, r) ==
    /\ StepBook(r.book)
    /\ last' = IF r.result # None
               THEN [c EXCEPT !.pass = "full",
                              !.level_done = Append(@, Fill(r.result[1].id, "Full",
                                                            r.result[1].price,
                                                            r.result[1].quantity)),
                              !.level_filled = @ + r.result[1].quantity,
                              !.level_left = @ - r.result[1].quantity]
               ELSE [c EXCEPT !.pass = "fault", !.fault = TRUE]

\* one pass of the while loop with head at the front of the level
StepPass(B, c, head) ==
    IF c.level_left < head.quantity
    THEN StepPartial(B, c, head)
    ELSE StepFull(c, OrderBook_remove(B, head.id))

StepLevelLoop ==
    /\ last.pc = "level"
    /\ IF ~(last.level_left > 0 /\ PriceLevel_len(heap[last.level[1]]) > 0)
       THEN StepLevelReturn(Book, last)
       ELSE StepPass(Book, StepMeasured(Book, last),
                     PriceLevel_front(heap[last.level[1]])[1])
    /\ UNCHANGED <<nextId, now, pre>>

\* the end of submit_limit_order: the remainder rests
StepRest(c, t) ==
    /\ StepWhole(DropUnreferenced(
           OrderBook_append(Book, Order_new(nextId, c.side, c.quantity_left,
                                            c.price, t))))
    /\ nextId' = nextId + 1
    /\ now' = t

StepReturn ==
    /\ last.pc = "after"
    /\ IF last.op = "limit" /\ last.quantity_left > 0
       THEN \E t \in {now, now + 1} : Clock(t) /\ StepRest(last, t)
       ELSE StepWhole(Book) /\ UNCHANGED <<nextId, now>>

StepAppendOrder ==
    /\ last.pc = "idle"
    /\ nextId <= MaxIds
    /\ \E side \in {"Bid", "Ask"}, quantity \in RestQtys, price \in Prices,
          t \in {now, now + 1} :
         /\ Clock(t)
         /\ StepWhole(DropUnreferenced(
                OrderBook_append(Book, Order_new(nextId, side, quantity, price, t))))
         /\ now' = t
    /\ nextId' = nextId + 1

StepRemoveOrder ==
    /\ last.pc = "idle"
    /\ \E id \in Ids : StepWhole(DropUnreferenced(OrderBook_remove(Book, id).book))
    /\ UNCHANGED <<nextId, now>>

StepNext ==
    \/ StepSubmitMarketOrder
    \/ StepSubmitLimitOrder
    \/ StepSubmitLoop
    \/ StepLevelLoop
    \/ StepReturn
    \/ StepAppendOrder
    \/ StepRemoveOrder

StepSpec == StepInit /\ [][StepNext]_vars

\* the loops are not suspended: a call in progress takes its next step
StepFairSpec == StepSpec /\ WF_vars(StepSubmitLoop \/ StepLevelLoop \/ StepReturn)

\* ------------------------------------------------------------------ C22
\* the last step was a pass of the while loop of fill_at_price_level
Passed == last.pass \in {"partial", "full", "fault"}

\* a call is in progress
InCall == last.pc # "idle"

\* C22: every call of submit_market_order and submit_limit_order terminates.
\* Each pass of the while loop of fill_at_price_level removes a resting order
\* or sets the quantity left to zero, and so does each pass of the submit loop
\* that calls fill_at_price_level; hence a call makes at most as many passes
\* as orders rested on the opposing side when it was made and at most as many
\* calls of fill_at_price_level as that side had levels.
C22_LoopsProgress ==
    /\ Passed =>
          \/ OppCount(Book, last.side) < last.resting_before
          \/ (last.level_left = 0 /\ last.left_before > 0)
    /\ last.pass = "return" =>
          \/ OppCount(Book, last.side) < last.resting_at_entry
          \/ last.quantity_left = 0
    /\ InCall =>
          /\ last.passes <= OppCount(pre, last.side)
          /\ last.entries <= Cardinality(DOMAIN other_book_side(pre, last.side).prices)

\* a call has emptied one level, entered a second one and filled an order
\* there in part
C22_Witness ==
    /\ InCall
    /\ last.entries = 2
    /\ last.passes >= 2
    /\ last.pass = "partial"

\* every call that was made returns (a property of StepFairSpec)
Terminates == InCall ~> ~InCall

\* ------------------------------------------------------------------ C23
\* the while loop of fill_at_price_level is about to take the full branch
\* for the order at the head of its level
AtFullBranch ==
    /\ last.pc = "level"
    /\ last.level_left > 0
    /\ PriceLevel_len(heap[last.level[1]]) > 0
    /\ ~(last.level_left < PriceLevel_front(heap[last.level[1]])[1].quantity)

\* the order at the head of the level of the call in progress
HeadOrder == PriceLevel_front(heap[last.level[1]])[1]

\* C23: the fault branch of a full fill is never taken.  Whenever
\* fill_at_price_level takes the full branch for the head order of a level,
\* the global index holds that order as the level holds it and remove(head.id)
\* returns it, not the absent result.
C23_FaultBranchUnreachable ==
    /\ ~last.fault
    /\ last.pass # "fault"
    /\ AtFullBranch =>
          /\ HeadOrder.id \in DOMAIN orders
          /\ orders[HeadOrder.id] = HeadOrder
          /\ Position(QueueOf(Book, HeadOrder), HeadOrder) = 1
          /\ OrderBook_remove(Book, HeadOrder.id).result = Some(HeadOrder)

\* the full branch has been taken once in this call and is about to be taken
\* for the next order at the head of the level
C23_Witness ==
    /\ AtFullBranch
    /\ last.pass = "full"
    /\ last.passes = 1
    /\ HeadOrder.id \in DOMAIN pre.orders

\* ------------------------------------------------------------------ C24
\* queue s is in order of arrival: ids are issued, and instants taken, in the
\* order of submission
InArrivalOrder(s) ==
    \A i \in 1..Len(s), j \in 1..Len(s) :
        i < j => (s[i].id < s[j].id /\ s[i].timestamp <= s[j].timestamp)

\* C24: the unfilled remainder of a limit order is appended at the tail of the
\* level at its limit price on the submitting side, behind every order that
\* rested at that price; the orders that rested on the submitting side keep
\* their fields and their order; so in every level an order submitted earlier
\* is nearer the front than one submitted later.
C24_RemainderAtTail ==
    /\ (IsLimit(last) /\ last.partial # None) =>
          /\ QueueAt(Book, last.side, last.price) =
                 Append(QueueAt(pre, last.side, last.price), last.partial[1])
          /\ \A p \in Prices \ {last.price} :
                 QueueAt(Book, last.side, p) = QueueAt(pre, last.side, p)
    /\ \A side \in {"Bid", "Ask"}, p \in Prices : InArrivalOrder(QueueAt(Book, side, p))

\* a limit order was filled in part and its remainder rests behind the order
\* that rested on its side at its price
C24_Witness ==
    /\ IsLimit(last) /\ last.partial # None
    /\ last.quantity_filled > 0
    /\ Len(QueueAt(Book, last.side, last.price)) = 2
    /\ QueueAt(Book, last.side, last.price)[2] = last.partial[1]

\* ------------------------------------------------------------------ C25
\* the first place of queue s that holds an order of id id
FirstWithId(s, id) == SetMin({i \in 1..Len(s) : s[i].id = id})

\* remove(order) on level pl takes out the member at place i, returns it and
\* lowers the volume by the member's quantity
RemovesMember(pl, order, i) ==
    /\ PriceLevel_remove(pl, order).result = Some(pl.orders[i])
    /\ PriceLevel_remove(pl, order).level.orders = RemoveAt(pl.orders, i)
    /\ PriceLevel_remove(pl, order).level.volume = pl.volume - pl.orders[i].quantity

\* C25: PriceLevel.remove(order) locates its target by id: when the level
\* holds an order with the id of the argument, that order is removed and
\* returned and the volume of the level drops by its quantity, also when the
\* other fields of the argument differ from the member's.
C25_RemoveLocatesById ==
    \A order \in ArgOrders :
        (\E i \in 1..Len(TheLevel.orders) : TheLevel.orders[i].id = order.id) =>
            RemovesMember(TheLevel, order, FirstWithId(TheLevel.orders, order.id))

\* ------------------------------------------------------------------ C26
RECURSIVE SumFills(_)
\* the sum of the quantities of the fills of list fs
SumFills(fs) == IF fs = <<>> THEN 0 ELSE Head(fs).quantity + SumFills(Tail(fs))

\* C26: in every result of submit_market_order and submit_limit_order,
\* quantity_filled is the sum of the quantities of the fills, every fill has
\* a quantity > 0, and quantity_filled does not exceed a submitted quantity
\* > 0.
C26_QuantityFilled ==
    IsSubmit(last) =>
        /\ last.quantity_filled = SumFills(last.done)
        /\ \A i \in 1..Len(last.done) : last.done[i].quantity > 0
        /\ last.quantity > 0 => last.quantity_filled <= last.quantity

\* a result with a fill of quantity 2 and one of quantity 1, which add up to
\* the submitted quantity
C26_Witness ==
    /\ IsSubmit(last)
    /\ Len(last.done) = 2
    /\ last.done[1].quantity = 2
    /\ last.done[2].quantity = 1
    /\ last.quantity_filled = 3
    /\ last.quantity = 3

\* ------------------------------------------------------------------ C27
\* C27: a result of submit_market_order or submit_limit_order holds at most
\* one Partial fill, which is then the last of the list; every other fill is
\* Full and its quantity is the whole quantity that the resting order had
\* before the call; a result with a Partial fill has quantity_filled equal to
\* the submitted quantity.
C27_OnePartialLast ==
    IsSubmit(last) =>
        /\ \A i \in 1..Len(last.done) :
              /\ last.done[i].status \in {"Partial", "Full"}
              /\ last.done[i].status = "Partial" => i = Len(last.done)
              /\ last.done[i].status = "Full" =>
                    last.done[i].quantity = pre.orders[last.done[i].order_id].quantity
        /\ Cardinality({i \in 1..Len(last.done) : last.done[i].status = "Partial"}) <= 1
        /\ HasPartial(last) => last.quantity_filled = last.quantity

\* a result of a Full fill of an order of quantity 2 followed by a Partial
\* fill
C27_Witness ==
    /\ IsSubmit(last)
    /\ Len(last.done) = 2
    /\ last.done[1].status = "Full"
    /\ last.done[1].quantity = 2
    /\ last.done[2].status = "Partial"

\* ------------------------------------------------------------------ C28
\* the number of Full fills of the last call
FullCount(l) == Cardinality({i \in 1..Len(l.done) : l.done[i].status = "Full"})

\* C28: conservation of quantity.  A submission lowers the volume of the
\* opposing side by quantity_filled and its num_orders by the number of Full
\* fills, and a Partial fill changes neither num_orders nor depth; a limit
\* order raises the volume of the submitting side by the submitted quantity
\* minus quantity_filled, and a market order leaves it unchanged.
C28_Conservation ==
    IsSubmit(last) =>
        /\ SideOf(Book, OppSide(last.side)).volume =
               SideOf(pre, OppSide(last.side)).volume - last.quantity_filled
        /\ SideOf(Book, OppSide(last.side)).num_orders =
               SideOf(pre, OppSide(last.side)).num_orders - FullCount(last)
        /\ FullCount(last) = 0 =>
               SideOf(Book, OppSide(last.side)).depth =
                   SideOf(pre, OppSide(last.side)).depth
        /\ IsLimit(last) =>
               SideOf(Book, last.side).volume =
                   SideOf(pre, last.side).volume + (last.quantity - last.quantity_filled)
        /\ IsMarket(last) =>
               SideOf(Book, last.side).volume = SideOf(pre, last.side).volume

\* ------------------------------------------------------------------ C29
\* the public operations of OrderBook: append is private, so a book is built
\* by limit orders only
ApiNext == SubmitMarketOrder \/ SubmitLimitOrder \/ RemoveOrder \/ GetOrder

ApiSpec == Init /\ [][ApiNext]_vars

\* the prices at which orders rest on side bs
RestingPrices(bs, hp) == {o.price : o \in Resting(bs, hp)}

\* C29: the book is never crossed.  In every state reached from the empty book
\* by submit_limit_order, submit_market_order and remove, when both sides hold
\* orders the highest resting bid price is strictly below the lowest resting
\* ask price.
C29_NeverCrossed ==
    (RestingPrices(bids, heap) # {} /\ RestingPrices(asks, heap) # {}) =>
        SetMax(RestingPrices(bids, heap)) < SetMin(RestingPrices(asks, heap))

\* a limit bid took the asks at its price and its remainder rests one price
\* below the asks that are left
C29_Witness ==
    /\ IsLimit(last) /\ last.side = "Bid"
    /\ last.quantity_filled > 0
    /\ last.partial # None
    /\ RestingPrices(asks, heap) # {}
    /\ SetMin(RestingPrices(asks, heap)) = last.price + 1

====
